---- MODULE Spec2Model ----
(***************************************************************************)
(* Model of the redirector service (src/src/main.rs): an in-memory        *)
(* create-once map guarded by one std::sync::RwLock, and the three poem    *)
(* handlers that call it.  Every HTTP request is one task; tasks run       *)
(* concurrently and interleave at the steps of lookup and store.           *)
(***************************************************************************)
EXTENDS Naturals, Sequences, FiniteSets, TLC

\* ------------------------------------------------------------------ bounds
\* Number of HTTP requests (tasks) of one run.
NumTasks == 3
Tasks == 1..NumTasks
\* Identifiers are strings, modelled as sequences of characters; the empty
\* identifier is a proper prefix of the other one.
Ids == {<<>>, <<"a">>}
Urls == {"", "https://example.com"}
Owners == {"", "alice"}

\* ------------------------------------------------------------------ state
VARIABLES
    data,      \* InMemoryStorage.data: the HashMap, identifier -> <<url, owner>>
    inflight,  \* the key whose bucket HashMap::insert is writing, as a set
    writer,    \* holder of the RwLock's write guard, as a set of tasks
    readers,   \* holders of read guards
    poisoned,  \* the RwLock's poison flag
    pc,        \* each task's position
    req,       \* each task's request
    result,    \* what the task's storage call returned
    resp,      \* the handler's response
    logged,    \* the debug! lines each task has emitted
    pre        \* history: what each task's identifier had when the call was issued

vars == <<data, inflight, writer, readers, poisoned, pc, req, result, resp,
          logged, pre>>

\* --------------------------------------------------------------- HashMap
EmptyMap == [k \in {} |-> <<>>]

\* Mutant: a check that also refuses the empty identifier.
ContainsKeyOrEmpty(d, id) == id = <<>> \/ id \in DOMAIN d

\* Mutant: a contains_key that never finds the key, which makes store an upsert.
ContainsKeyNever(d, id) == FALSE

ContainsKey(d, id) == id \in DOMAIN d

\* Mutant: an insert that stores the tuple as (owner, url).
InsertSwapped(d, id, v) ==
    [k \in DOMAIN d \cup {id} |-> IF k = id THEN <<v[2], v[1]>> ELSE d[k]]

\* Mutant: an insert that replaces the map by the one new record.
InsertAlone(d, id, v) == [k \in {id} |-> v]

Insert(d, id, v) == [k \in DOMAIN d \cup {id} |-> IF k = id THEN v ELSE d[k]]

\* ----------------------------------------------------------- StorageError
Ok(v) == [tag |-> "Ok", val |-> v]
NotFound == [tag |-> "NotFound"]
AlreadyExists == [tag |-> "AlreadyExists"]
InternalError == [tag |-> "InternalError"]
NoResult == [tag |-> "none"]
\* What a read of a bucket that is being written yields (a torn record).
Torn == [tag |-> "Torn"]

\* s is a prefix of t.
IsPrefix(s, t) == Len(s) <= Len(t) /\ SubSeq(t, 1, Len(s)) = s

\* Mutant: a get that accepts a stored key that is a prefix of the identifier.
GetByPrefix(d, infl, id) ==
    IF id \in infl THEN Torn
    ELSE IF \E k \in DOMAIN d : IsPrefix(k, id)
         THEN Ok(d[CHOOSE k \in DOMAIN d : IsPrefix(k, id)])
         ELSE NotFound

\* HashMap::get as lookup observes it: the bucket's value, None for a missing
\* key.  A bucket that insert has claimed and not finished writing reads torn.
Get(d, infl, id) ==
    IF id \in infl THEN Torn
    ELSE IF id \in DOMAIN d THEN Ok(d[id]) ELSE NotFound

\* Mutant: a lookup that reports a missing key as an internal error.
LookupValueMissInternal(g) ==
    IF g.tag = "Ok" THEN Ok(g.val[1])
    ELSE IF g.tag = "NotFound" THEN InternalError ELSE g

\* Mutant: a lookup that returns the tuple's owner.
LookupValueOwner(g) == IF g.tag = "Ok" THEN Ok(g.val[2]) ELSE g

\* lookup's .map(|(url, _)| url.clone()).ok_or(StorageError::NotFound).
LookupValue(g) == IF g.tag = "Ok" THEN Ok(g.val[1]) ELSE g

\* --------------------------------------------------------------- requests
CreateRedirectRequest ==
    [kind : {"create"}, short_name : Ids, url : Urls, owner : Owners]
GoRequest == [kind : {"go"}, id : Ids]
IndexRequest == [kind : {"index"}]
NoReq == [kind |-> "none"]
\* The fields serde requires of a form body: the struct's three Strings, none
\* of them an Option or defaulted.
FormFields == {"short_name", "url", "owner"}
\* The bodies of POST /create, by the fields they carry.
FormBodies == SUBSET FormFields

\* Form<CreateRedirectRequest>: the fields whose absence fails deserialization.
MissingFields(body) == FormFields \ body

\* -------------------------------------------------------------- responses
NoResp == [kind |-> "none"]
Placeholder == "<!-- MESSAGE_PLACEHOLDER -->"
\* templates/index.html: text around one placeholder.
IndexTemplate == <<"<html><form action='/create'>", Placeholder, "</form></html>">>

\* str::replace on the template's segments.
Replace(html, pat, with) ==
    [n \in DOMAIN html |-> IF html[n] = pat THEN with ELSE html[n]]

MessageDiv(class, message) == [div |-> "message " \o class, text |-> message]

\* Mutant: a match without the AlreadyExists arm.
CreateMessageNoExists(r) ==
    IF r.tag = "Ok" THEN <<"Redirect created successfully", TRUE>>
    ELSE <<"An error occurred while creating the redirect", FALSE>>

\* create_redirect's match on the result of store.
CreateMessage(r) ==
    IF r.tag = "Ok" THEN <<"Redirect created successfully", TRUE>>
    ELSE IF r.tag = "AlreadyExists" THEN <<"ID already exists", FALSE>>
    ELSE <<"An error occurred while creating the redirect", FALSE>>

CreateResponse(r) ==
    LET m == CreateMessage(r)
        html == IF m[1] # ""
                THEN Replace(IndexTemplate, Placeholder,
                             MessageDiv(IF m[2] THEN "success" ELSE "error", m[1]))
                ELSE IndexTemplate
    IN  [kind |-> "html", body |-> html]

IndexResponse == [kind |-> "html", body |-> Replace(IndexTemplate, Placeholder, "")]

\* The response poem builds from the Form extractor's error: a bare status.
BadRequest == [kind |-> "status", code |-> 400]

HomeNotFound ==
    [path |-> "/", message |-> "Redirect not found", success |-> "false"]
HomeError ==
    [path |-> "/", message |-> "An error occurred while looking up the redirect",
     success |-> "false"]

\* Mutant: a match that answers a failed lookup with an error status.
RedirectResponseStatus(r) ==
    IF r.tag = "Ok" THEN [kind |-> "permanent", location |-> r.val]
    ELSE IF r.tag = "NotFound" THEN [kind |-> "status", code |-> 404]
    ELSE [kind |-> "status", code |-> 500]

\* Mutant: a match that answers NotFound with a permanent redirect.
RedirectResponsePermanentMiss(r) ==
    IF r.tag = "Ok" THEN [kind |-> "permanent", location |-> r.val]
    ELSE IF r.tag = "NotFound" THEN [kind |-> "permanent", location |-> HomeNotFound]
    ELSE [kind |-> "temporary", location |-> HomeError]

\* handle_redirect's match on the result of lookup.
RedirectResponse(r) ==
    IF r.tag = "Ok" THEN [kind |-> "permanent", location |-> r.val]
    ELSE IF r.tag = "NotFound" THEN [kind |-> "temporary", location |-> HomeNotFound]
    ELSE [kind |-> "temporary", location |-> HomeError]

\* ------------------------------------------------------------------ RwLock
\* Mutants: a lock that grants write(), or read(), whatever is held.
CanWriteUnguarded == TRUE
CanReadUnguarded == TRUE

\* write() is granted when nobody holds the lock, read() when no writer does.
CanWrite == writer = {} /\ readers = {}
CanRead == writer = {}

\* ----------------------------------------------------------------- history
\* The store calls for identifier id, and those that have returned Ok.
Stores(id) == {t \in Tasks : req[t].kind = "create" /\ req[t].short_name = id}
OkStores(id) == {t \in Stores(id) : pc[t] = "done" /\ result[t].tag = "Ok"}
\* What a call finds when it is issued: whether its identifier is in the
\* map, the urls of the store calls for it that have returned Ok and, for a
\* lookup, whether a store call for it is in progress.
NoPre == [present |-> FALSE, won |-> {}, busy |-> FALSE]
Snapshot(id, kind) ==
    [present |-> id \in DOMAIN data,
     won |-> {req[t].url : t \in OkStores(id)},
     busy |-> kind = "go" /\ \E t \in Stores(id) : pc[t] # "done"]

\* ------------------------------------------------------------------ Init
Init ==
    /\ data = EmptyMap
    /\ inflight = {}
    /\ writer = {}
    /\ readers = {}
    /\ poisoned = FALSE
    /\ pc = [t \in Tasks |-> "idle"]
    /\ req = [t \in Tasks |-> NoReq]
    /\ result = [t \in Tasks |-> NoResult]
    /\ resp = [t \in Tasks |-> NoResp]
    /\ logged = [t \in Tasks |-> <<>>]
    /\ pre = [t \in Tasks |-> NoPre]

\* ---------------------------------------------------------------- actions
\* Requests are numbered in their order of arrival: request t arrives once
\* the requests before it have.
Arrives(t) == pc[t] = "idle" /\ \A s \in Tasks : s < t => pc[s] # "idle"

\* POST /create arrives with a body that lacks a field: the Form extractor
\* fails, create_redirect's body does not run and the error is the response.
\* The request is recorded by its kind, "form".
CreateRejected(t) ==
    /\ Arrives(t)
    /\ \E body \in FormBodies :
          /\ MissingFields(body) # {}
          /\ req' = [req EXCEPT ![t] = [kind |-> "form"]]
    /\ resp' = [resp EXCEPT ![t] = BadRequest]
    /\ pc' = [pc EXCEPT ![t] = "done"]
    /\ UNCHANGED <<data, inflight, writer, readers, poisoned, result,
                   logged, pre>>

\* POST /create arrives with the three fields, a payload of set R:
\* create_redirect calls store.
StartCreateFrom(t, R) ==
    /\ Arrives(t)
    /\ \E r \in R :
          /\ req' = [req EXCEPT ![t] = r]
          /\ pre' = [pre EXCEPT ![t] = Snapshot(r.short_name, r.kind)]
    /\ pc' = [pc EXCEPT ![t] = "store_lock"]
    /\ UNCHANGED <<data, inflight, writer, readers, poisoned, result,
                   resp, logged>>

StartCreate(t) == StartCreateFrom(t, CreateRedirectRequest)

\* Mutant: a handle_redirect without its debug! line.
StartGoSilent(t) ==
    /\ Arrives(t)
    /\ \E r \in GoRequest :
          /\ req' = [req EXCEPT ![t] = r]
          /\ pre' = [pre EXCEPT ![t] = Snapshot(r.id, r.kind)]
    /\ pc' = [pc EXCEPT ![t] = "lookup_lock"]
    /\ UNCHANGED <<data, inflight, writer, readers, poisoned, result, resp,
                   logged>>

\* GET /go/:id arrives: handle_redirect logs and calls lookup.
StartGo(t) ==
    /\ Arrives(t)
    /\ \E r \in GoRequest :
          /\ req' = [req EXCEPT ![t] = r]
          /\ pre' = [pre EXCEPT ![t] = Snapshot(r.id, r.kind)]
          /\ logged' = [logged EXCEPT ![t] = Append(@, <<"Looked up", r.id>>)]
    /\ pc' = [pc EXCEPT ![t] = "lookup_lock"]
    /\ UNCHANGED <<data, inflight, writer, readers, poisoned, result, resp>>

\* GET /: index renders the page with the placeholder emptied.
Index(t) ==
    /\ Arrives(t)
    /\ req' = [req EXCEPT ![t] = [kind |-> "index"]]
    /\ resp' = [resp EXCEPT ![t] = IndexResponse]
    /\ pc' = [pc EXCEPT ![t] = "done"]
    /\ UNCHANGED <<data, inflight, writer, readers, poisoned, result,
                   logged, pre>>

\* The query strings a redirect of handle_redirect sends the client to / with.
Queries ==
    {[message |-> loc.message, success |-> loc.success] :
        loc \in {HomeNotFound, HomeError}}

\* Mutant: an index that puts the query's message text at the placeholder.
IndexWithQueryRendered(t) ==
    /\ Arrives(t)
    /\ \E q \in Queries :
          /\ req' = [req EXCEPT ![t] = [kind |-> "index", query |-> q]]
          /\ resp' = [resp EXCEPT ![t] =
                         [kind |-> "html",
                          body |-> Replace(IndexTemplate, Placeholder, q.message)]]
    /\ pc' = [pc EXCEPT ![t] = "done"]
    /\ UNCHANGED <<data, inflight, writer, readers, poisoned, result,
                   logged, pre>>

\* GET /?message=..&success=.. arrives: index takes no extractor, so the query
\* string is not read and the page is the one of GET /.
IndexWithQuery(t) ==
    /\ Arrives(t)
    /\ \E q \in Queries :
          req' = [req EXCEPT ![t] = [kind |-> "index", query |-> q]]
    /\ resp' = [resp EXCEPT ![t] = IndexResponse]
    /\ pc' = [pc EXCEPT ![t] = "done"]
    /\ UNCHANGED <<data, inflight, writer, readers, poisoned, result,
                   logged, pre>>

\* store: self.data.write(), an Err when the lock is poisoned; under the guard,
\* data.contains_key(id) and the Err(AlreadyExists) branch.
StoreAcquire(t) ==
    /\ pc[t] = "store_lock"
    /\ CanWrite
    /\ IF poisoned
       THEN /\ result' = [result EXCEPT ![t] = InternalError]
            /\ pc' = [pc EXCEPT ![t] = "store_ret"]
            /\ UNCHANGED writer
       ELSE /\ writer' = writer \cup {t}
            /\ IF ContainsKey(data, req[t].short_name)
               THEN /\ result' = [result EXCEPT ![t] = AlreadyExists]
                    /\ pc' = [pc EXCEPT ![t] = "store_ret"]
               ELSE /\ pc' = [pc EXCEPT ![t] = "store_insert"]
                    /\ UNCHANGED result
    /\ UNCHANGED <<data, inflight, readers, poisoned, req, resp, logged, pre>>

\* store: data.insert(..) claims the key's bucket ...
StoreInsertBegin(t) ==
    /\ pc[t] = "store_insert"
    /\ inflight' = inflight \cup {req[t].short_name}
    /\ pc' = [pc EXCEPT ![t] = "store_write"]
    /\ UNCHANGED <<data, writer, readers, poisoned, req, result, resp,
                   logged, pre>>

\* ... and writes the (url, owner) tuple into it; Ok(()).
StoreInsertEnd(t) ==
    /\ pc[t] = "store_write"
    /\ data' = Insert(data, req[t].short_name, <<req[t].url, req[t].owner>>)
    /\ inflight' = inflight \ {req[t].short_name}
    /\ result' = [result EXCEPT ![t] = Ok(<<>>)]
    /\ pc' = [pc EXCEPT ![t] = "store_ret"]
    /\ UNCHANGED <<writer, readers, poisoned, req, resp, logged, pre>>

\* Mutant: a handler that calls store again when it failed with InternalError.
CreateRespondRetry(t) ==
    /\ pc[t] = "store_ret"
    /\ writer' = writer \ {t}
    /\ IF result[t] = InternalError
       THEN /\ pc' = [pc EXCEPT ![t] = "store_lock"]
            /\ result' = [result EXCEPT ![t] = NoResult]
            /\ UNCHANGED resp
       ELSE /\ pc' = [pc EXCEPT ![t] = "done"]
            /\ resp' = [resp EXCEPT ![t] = CreateResponse(result[t])]
            /\ UNCHANGED result
    /\ UNCHANGED <<data, inflight, readers, poisoned, req, logged, pre>>

\* Mutant: a store whose AlreadyExists path keeps the write guard.
CreateRespondHolding(t) ==
    /\ pc[t] = "store_ret"
    /\ writer' = IF result[t] = AlreadyExists THEN writer ELSE writer \ {t}
    /\ resp' = [resp EXCEPT ![t] = CreateResponse(result[t])]
    /\ pc' = [pc EXCEPT ![t] = "done"]
    /\ UNCHANGED <<data, inflight, readers, poisoned, req, result, logged, pre>>

\* store returns, dropping the write guard, and create_redirect renders the
\* page for its result.
CreateRespond(t) ==
    /\ pc[t] = "store_ret"
    /\ writer' = writer \ {t}
    /\ resp' = [resp EXCEPT ![t] = CreateResponse(result[t])]
    /\ pc' = [pc EXCEPT ![t] = "done"]
    /\ UNCHANGED <<data, inflight, readers, poisoned, req, result, logged, pre>>

\* Mutant: a lookup that takes the record out of the map as it reads it.
LookupTaking(t) ==
    /\ pc[t] = "lookup_lock"
    /\ CanRead
    /\ IF poisoned
       THEN /\ result' = [result EXCEPT ![t] = InternalError]
            /\ UNCHANGED <<readers, data>>
       ELSE /\ readers' = readers \cup {t}
            /\ result' = [result EXCEPT ![t] =
                             LookupValue(Get(data, inflight, req[t].id))]
            /\ data' = [k \in DOMAIN data \ {req[t].id} |-> data[k]]
    /\ pc' = [pc EXCEPT ![t] = "lookup_ret"]
    /\ UNCHANGED <<inflight, writer, poisoned, req, resp, logged, pre>>

\* lookup: self.data.read(), an Err when the lock is poisoned; under the guard,
\* data.get(id) mapped to the url or to NotFound.
Lookup(t) ==
    /\ pc[t] = "lookup_lock"
    /\ CanRead
    /\ IF poisoned
       THEN /\ result' = [result EXCEPT ![t] = InternalError]
            /\ UNCHANGED readers
       ELSE /\ readers' = readers \cup {t}
            /\ result' = [result EXCEPT ![t] =
                             LookupValue(Get(data, inflight, req[t].id))]
    /\ pc' = [pc EXCEPT ![t] = "lookup_ret"]
    /\ UNCHANGED <<data, inflight, writer, poisoned, req, resp, logged, pre>>

\* lookup returns, dropping the read guard, and handle_redirect answers with
\* the redirect for its result.
RedirectRespond(t) ==
    /\ pc[t] = "lookup_ret"
    /\ readers' = readers \ {t}
    /\ resp' = [resp EXCEPT ![t] = RedirectResponse(result[t])]
    /\ pc' = [pc EXCEPT ![t] = "done"]
    /\ UNCHANGED <<data, inflight, writer, poisoned, req, result, logged, pre>>

\* A task panics inside data.insert, before the map is touched (its
\* allocation fails): unwinding drops the write guard, which poisons the lock;
\* the task is torn down without a response and the map is as it was.
Panic(t) ==
    /\ pc[t] = "store_insert"
    /\ poisoned' = TRUE
    /\ writer' = writer \ {t}
    /\ pc' = [pc EXCEPT ![t] = "panicked"]
    /\ req' = [req EXCEPT ![t] = NoReq]
    /\ pre' = [pre EXCEPT ![t] = NoPre]
    /\ UNCHANGED <<data, inflight, readers, result, resp, logged>>

Step(t) ==
    \/ StartCreate(t)
    \/ StartGo(t)
    \/ Index(t)
    \/ StoreAcquire(t)
    \/ StoreInsertBegin(t)
    \/ StoreInsertEnd(t)
    \/ CreateRespond(t)
    \/ Lookup(t)
    \/ RedirectRespond(t)

Next == \E t \in Tasks : Step(t)

\* The program as it runs: no code under the write guard panics.
Spec == Init /\ [][Next]_vars

NextFault == \E t \in Tasks : Step(t) \/ Panic(t)

\* The same program with a panicking holder of the write guard injected.
SpecFault == Init /\ [][NextFault]_vars

\* Every call that can take its next step takes it: the runtime's worker
\* threads run the tasks, and a lock that stays free is granted to a waiter.
\* Nothing obliges a client to send a request.
Fairness ==
    \A t \in Tasks :
        /\ WF_vars(StoreAcquire(t))
        /\ WF_vars(StoreInsertBegin(t))
        /\ WF_vars(StoreInsertEnd(t))
        /\ WF_vars(CreateRespond(t))
        /\ WF_vars(Lookup(t))
        /\ WF_vars(RedirectRespond(t))

\* The payloads with one url and one owner: which task waits for which depends
\* on the identifiers alone.
OneUrlRequests ==
    {r \in CreateRedirectRequest : r.url = "https://example.com" /\ r.owner = "alice"}

StepFair(t) ==
    \/ StartCreateFrom(t, OneUrlRequests)
    \/ StartGo(t)
    \/ Index(t)
    \/ StoreAcquire(t)
    \/ StoreInsertBegin(t)
    \/ StoreInsertEnd(t)
    \/ CreateRespond(t)
    \/ Lookup(t)
    \/ RedirectRespond(t)

NextFair == \E t \in Tasks : StepFair(t)

\* The program under fair scheduling of the tasks and of the lock.
SpecFair == Init /\ [][NextFair]_vars /\ Fairness

NextQuery == \E t \in Tasks : Step(t) \/ IndexWithQuery(t)

\* Spec with the GET / requests that carry a query string.
SpecQuery == Init /\ [][NextQuery]_vars

NextForm == \E t \in Tasks : Step(t) \/ Panic(t) \/ CreateRejected(t)

\* SpecFault with the POST /create requests whose body does not deserialize.
SpecForm == Init /\ [][NextForm]_vars

\* ------------------------------------------------------------ shorthands
Creates == {t \in Tasks : req[t].kind = "create"}
Gos == {t \in Tasks : req[t].kind = "go"}
Done(t) == pc[t] = "done"
\* The store calls for id that were issued while id was not in the map: each
\* was pending when the first of them inserted, so they all ran concurrently.
Racers(id) == {t \in Stores(id) : ~pre[t].present}
\* The lookups of id issued after a store call for id had returned Ok and
\* while no store call for id was in progress.
LookupsAfter(id) ==
    {l \in Gos : req[l].id = id /\ pre[l].won # {} /\ ~pre[l].busy}
SuccessPage ==
    Replace(IndexTemplate, Placeholder,
            MessageDiv("success", "Redirect created successfully"))
ExistsPage ==
    Replace(IndexTemplate, Placeholder, MessageDiv("error", "ID already exists"))
ErrorPage ==
    Replace(IndexTemplate, Placeholder,
            MessageDiv("error", "An error occurred while creating the redirect"))

\* ------------------------------------------------------------------ C1
\* The state predicate of C1.
OneRacerWins ==
    \A id \in Ids :
        LET S == Racers(id) IN
        (/\ Cardinality(S) >= 2
         /\ \A t \in S : Done(t)
         /\ \A t, u \in S : t # u => req[t].url # req[u].url)
        => /\ Cardinality({t \in S : result[t] = Ok(<<>>)}) = 1
           /\ \A t \in S : result[t] \in {Ok(<<>>), AlreadyExists}
           /\ \A t \in S : \A l \in LookupsAfter(id) :
                 (result[t] = Ok(<<>>) /\ Done(l)) => result[l] = Ok(req[t].url)

\* C1: when two or more store calls for one identifier, with pairwise
\* distinct urls, run concurrently on an identifier that was absent, then once
\* all have returned exactly one has returned Ok and every other one
\* AlreadyExists, and every lookup of the identifier issued after they have
\* returned yields the url of the call that returned Ok.
C1_OneRacerWins == []OneRacerWins

\* Two racers have returned and a lookup issued after both has returned too.
C1_Witness ==
    \E id \in Ids : \E t, u \in Racers(id) : \E l \in LookupsAfter(id) :
        /\ t # u /\ req[t].url # req[u].url
        /\ \A s \in Racers(id) : Done(s)
        /\ Done(l)
        /\ result[t] = Ok(<<>>) /\ result[u] = AlreadyExists

\* ------------------------------------------------------------------ C2
\* The state predicate of C2.
StoreThenLookup ==
    \A t \in Creates :
        LET id == req[t].short_name IN
        /\ (Done(t) /\ Racers(id) = {t}) => result[t] = Ok(<<>>)
        /\ \A l \in Gos :
              (/\ Done(t) /\ result[t] = Ok(<<>>)
               /\ Done(l) /\ req[l].id = id /\ pre[l].won # {})
              => result[l] = Ok(req[t].url)

\* C2: a store call for an identifier that is absent (it was absent when the
\* call was issued and no other store call for it was issued while it was)
\* returns Ok, and every lookup of that identifier issued after a store call
\* returned Ok returns exactly that call's url, whatever ran in between.
C2_StoreThenLookup == []StoreThenLookup

\* A store on an absent identifier, another store, then a lookup that
\* returned the first one's url, which differs from the owner stored with it.
C2_Witness ==
    \E t, s \in Creates : \E l \in Gos :
        /\ t < s /\ s < l
        /\ Racers(req[t].short_name) = {t}
        /\ Done(t) /\ Done(s) /\ Done(l)
        /\ req[l].id = req[t].short_name /\ pre[l].won # {}
        /\ req[t].url # req[t].owner
        /\ result[l] = Ok(req[t].url)

\* ------------------------------------------------------------------ C3
\* C3: a store call for an identifier that is present when the call is issued
\* returns AlreadyExists, whatever its url and owner, and no step of that call
\* changes the map.
C3_NoUpsert ==
    /\ [](\A t \in Creates :
             (pre[t].present /\ pc[t] \in {"store_ret", "done"})
             => result[t] = AlreadyExists)
    /\ [][\A t \in Tasks :
             (req'[t].kind = "create" /\ pre'[t].present /\ pc'[t] # pc[t])
             => data' = data]_vars

\* A store with another url and owner was refused on a present identifier.
C3_Witness ==
    \E t \in Creates :
        /\ Done(t) /\ pre[t].present /\ result[t] = AlreadyExists
        /\ data[req[t].short_name][1] # req[t].url
        /\ data[req[t].short_name][2] # req[t].owner

\* ------------------------------------------------------------------ C4
\* The state predicate of C4.
ExactMatch ==
    \A l \in Gos :
        (Done(l) /\ \A t \in Stores(req[l].id) : result[t] # Ok(<<>>))
        => result[l] = NotFound

\* C4: a lookup of an identifier for which no store call has succeeded
\* returns NotFound, whatever other identifiers are present, prefixes and
\* extensions of it included.
C4_ExactMatch == []ExactMatch

\* A lookup returned NotFound while a proper prefix of its identifier was stored.
C4_Witness ==
    \E l \in Gos : \E k \in DOMAIN data :
        /\ Done(l) /\ result[l] = NotFound
        /\ pre[l].won = {}
        /\ k # req[l].id /\ IsPrefix(k, req[l].id)
        /\ \E t \in OkStores(k) : t < l

\* ------------------------------------------------------------------ C5
\* C5: a present identifier stays present with the same (url, owner) in every
\* later state, and the map changes only by the step of a store call that
\* inserts its own record for an absent identifier and returns Ok.
C5_AbsentToPresent ==
    [][/\ \A id \in DOMAIN data : id \in DOMAIN data' /\ data'[id] = data[id]
       /\ data' # data =>
             \E t \in Creates :
                LET id == req[t].short_name IN
                /\ pc[t] = "store_write" /\ pc'[t] = "store_ret"
                /\ id \notin DOMAIN data
                /\ data' = Insert(data, id, <<req[t].url, req[t].owner>>)
                /\ result'[t] = Ok(<<>>)]_vars

\* Both identifiers are present and a store for one of them, with another
\* record, has been refused.
C5_Witness ==
    /\ DOMAIN data = Ids
    /\ \E t \in Creates :
          /\ Done(t) /\ result[t] = AlreadyExists
          /\ data[req[t].short_name] # <<req[t].url, req[t].owner>>

\* ------------------------------------------------------------------ C6
\* The state predicate of C6.
ReaderWriterExclusion ==
    /\ Cardinality(writer) <= 1
    /\ writer # {} => readers = {}
    /\ \A t \in Tasks :
          /\ pc[t] \in {"store_insert", "store_write"} => writer = {t}
          /\ (pc[t] = "store_ret" /\ result[t] # InternalError) => writer = {t}
          /\ (pc[t] = "lookup_ret" /\ result[t] # InternalError) => t \in readers
          /\ result[t] # Torn
    /\ readers # {} => inflight = {}

\* C6: at most one store holds the lock, and then no lookup does; a store
\* holds it from its existence check to its return and a lookup while it
\* reads; no lookup holds it while a record is half written, and no lookup
\* ever reads a torn record.
C6_ReaderWriterExclusion == []ReaderWriterExclusion

\* Two lookups hold the lock together while a store waits for it.
C6_Witness ==
    /\ Cardinality(readers) >= 2
    /\ \E t \in Creates : pc[t] = "store_lock"

\* ------------------------------------------------------------------ C7
\* C7: no step of a lookup changes the map, whatever the lookup returns, and
\* every lookup of an identifier that was present when it was issued returns
\* the url stored for it (or InternalError once the lock is poisoned), so
\* repeated lookups return the same url.
C7_LookupReadOnly ==
    /\ [][\A t \in Tasks :
             (req'[t].kind = "go" /\ pc'[t] # pc[t]) => data' = data]_vars
    /\ [](\A l \in Gos :
             (Done(l) /\ pre[l].present)
             => result[l] \in {Ok(data[req[l].id][1]), InternalError})
    /\ [](\A l, m \in Gos :
             (/\ Done(l) /\ Done(m) /\ req[l].id = req[m].id
              /\ result[l].tag = "Ok" /\ result[m].tag = "Ok")
             => result[l] = result[m])

\* Two lookups of a present identifier have returned the same url.
C7_Witness ==
    \E l, m \in Gos :
        /\ l # m /\ req[l].id = req[m].id
        /\ Done(l) /\ Done(m)
        /\ pre[l].present /\ pre[m].present
        /\ result[l] = result[m] /\ result[l].tag = "Ok"
        /\ result[l].val # ""

\* ------------------------------------------------------------------ C8
\* The state predicate of C8.
EndToEnd ==
    \A x \in Ids :
        /\ Cardinality({c \in Stores(x) : Done(c) /\ resp[c].body = SuccessPage}) <= 1
        /\ \A c \in Stores(x) :
              (Done(c) /\ resp[c].body = SuccessPage)
              => /\ data[x][1] = req[c].url
                 /\ \A g \in Gos :
                       (req[g].id = x /\ Done(g) /\ pre[g].won # {})
                       => resp[g] = [kind |-> "permanent", location |-> req[c].url]
                 /\ \A d \in Stores(x) :
                       (Done(d) /\ pre[d].won # {}) => resp[d].body = ExistsPage

\* C8: for every short name x, at most one POST /create is answered
\* "Redirect created successfully"; once it is, every GET /go/x issued later is
\* answered with a permanent redirect to its url, and every POST /create for x
\* issued later is answered "ID already exists" and leaves that url in place.
C8_EndToEnd == []EndToEnd

\* A create succeeded, a later create for the same name with another url was
\* refused, and a GET issued after both redirects to the first url.
C8_Witness ==
    \E c, d \in Creates : \E g \in Gos :
        /\ req[c].short_name = req[d].short_name /\ req[g].id = req[c].short_name
        /\ req[c].url # req[d].url
        /\ Done(c) /\ Done(d) /\ Done(g)
        /\ resp[c].body = SuccessPage
        /\ pre[d].won # {} /\ resp[d].body = ExistsPage
        /\ pre[g].won # {} /\ ~pre[g].busy /\ d < g
        /\ resp[g] = [kind |-> "permanent", location |-> req[c].url]

\* ------------------------------------------------------------------ C9
\* C9: the create handler's response is the index page with one message at
\* the placeholder: the success message exactly when store returned Ok, "ID
\* already exists" exactly when it returned AlreadyExists, the generic message
\* otherwise; the handler adds its own record, once, exactly when the message is
\* the success one, and no other step of it changes the map.
C9_CreateOutcome ==
    /\ [](\A c \in Creates :
             Done(c) =>
                /\ resp[c].kind = "html"
                /\ Len(resp[c].body) = Len(IndexTemplate)
                /\ \A n \in DOMAIN IndexTemplate :
                      IF IndexTemplate[n] = Placeholder
                      THEN resp[c].body[n] \in
                              {MessageDiv("success", "Redirect created successfully"),
                               MessageDiv("error", "ID already exists"),
                               MessageDiv("error",
                                   "An error occurred while creating the redirect")}
                      ELSE resp[c].body[n] = IndexTemplate[n]
                /\ resp[c].body = SuccessPage <=> result[c] = Ok(<<>>)
                /\ resp[c].body = ExistsPage <=> result[c] = AlreadyExists
                /\ resp[c].body = ErrorPage <=> result[c] \notin {Ok(<<>>), AlreadyExists}
                /\ resp[c].body = SuccessPage =>
                      /\ req[c].short_name \in DOMAIN data
                      /\ data[req[c].short_name] = <<req[c].url, req[c].owner>>)
    /\ [][\A t \in Tasks :
             (req'[t].kind = "create" /\ pc'[t] # pc[t])
             => \/ data' = data
                \/ /\ req[t].short_name \notin DOMAIN data
                   /\ data' = Insert(data, req[t].short_name, <<req[t].url, req[t].owner>>)
                   /\ result[t] = NoResult
                   /\ result'[t] = Ok(<<>>)]_vars

\* One create was answered with the success message and one, after the lock
\* was poisoned, with the generic message.
C9_Witness ==
    /\ poisoned
    /\ \E c, d \in Creates :
          /\ Done(c) /\ resp[c].body = SuccessPage
          /\ Done(d) /\ resp[d].body = ErrorPage /\ result[d] = InternalError

\* ----------------------------------------------------------------- C10
\* The state predicate of C10.
RedirectOutcome ==
    \A g \in Gos :
        Done(g) =>
           LET id == req[g].id IN
           /\ result[g].tag = "Ok" =>
                 /\ id \in DOMAIN data
                 /\ resp[g] = [kind |-> "permanent", location |-> data[id][1]]
           /\ result[g] = NotFound =>
                 /\ resp[g].kind = "temporary"
                 /\ resp[g].location.path = "/"
                 /\ resp[g].location.message = "Redirect not found"
           /\ (result[g].tag # "Ok" /\ result[g] # NotFound) =>
                 /\ resp[g].kind = "temporary"
                 /\ resp[g].location.path = "/"
                 /\ resp[g].location.message =
                       "An error occurred while looking up the redirect"
           /\ resp[g].kind \in {"permanent", "temporary"}
           /\ resp[g].kind = "permanent" => id \in DOMAIN data
           /\ id \notin DOMAIN data =>
                 (resp[g].kind = "temporary" /\ resp[g].location.path = "/")

\* C10: the redirect handler answers Ok(url) with a permanent redirect to
\* exactly the stored url, NotFound with a temporary redirect to the home path
\* carrying the "not found" message, any other error with a temporary redirect
\* to the home path carrying the generic message; a permanent redirect is
\* issued only for a present identifier, and a request for an absent one gets
\* the temporary redirect to the home path.
C10_RedirectOutcome == []RedirectOutcome

\* One request was redirected permanently to a stored url and one, for an
\* absent identifier, temporarily to the home path.
C10_Witness ==
    \E g, h \in Gos :
        /\ Done(g) /\ Done(h)
        /\ resp[g] = [kind |-> "permanent", location |-> "https://example.com"]
        /\ req[h].id \notin DOMAIN data
        /\ resp[h] = [kind |-> "temporary", location |-> HomeNotFound]

\* ----------------------------------------------------------------- C11
\* The storage call of request t failed.
Failed(t) == result[t].tag \in {"NotFound", "AlreadyExists", "InternalError"}
HomeRedirect(t) == resp[t].kind = "temporary" /\ resp[t].location.path = "/"

\* C11 as stated: every answered request, whatever its form body carries or
\* lacks, gets a rendered page or a redirect, never an error status, and a
\* failed storage call is answered with the page or a redirect to the home path.
C11_NoRawStatus ==
    \A t \in Tasks :
        Done(t) =>
           /\ resp[t].kind \in {"html", "permanent", "temporary"}
           /\ Failed(t) => (resp[t].kind = "html" \/ HomeRedirect(t))

\* C11: a POST /create whose body lacks a required field is answered by the
\* Form extractor with status 400, without a storage call; every request that
\* reaches its handler - GET /, POST /create with the three fields, GET
\* /go/{id} - is answered, for every storage outcome, with the rendered page
\* (index, create) or a redirect (go), a failed lookup with the temporary
\* redirect to the home path: no storage error becomes an error response.
C11_HandlersNeverRaise ==
    /\ [](\A t \in Tasks :
             Done(t) =>
                IF req[t].kind = "form"
                THEN resp[t] = BadRequest /\ result[t] = NoResult
                ELSE /\ req[t].kind \in {"index", "create"} => resp[t].kind = "html"
                     /\ req[t].kind = "go" => resp[t].kind \in {"permanent", "temporary"}
                     /\ Failed(t) => (resp[t].kind = "html" \/ HomeRedirect(t))
                     /\ resp[t].kind = "permanent" => result[t].tag = "Ok")
    /\ [][\A t \in Tasks :
             (req'[t].kind = "form" /\ req[t].kind # "form")
             => /\ pc'[t] = "done"
                /\ <<data, writer, readers, result>>' = <<data, writer, readers, result>>]_vars

\* After the lock was poisoned, a create lacking a field got status 400 and a
\* lookup that failed with InternalError got the redirect to the home path.
C11_Witness ==
    /\ poisoned
    /\ \E f, g \in Tasks :
          /\ req[f].kind = "form" /\ Done(f) /\ resp[f] = BadRequest
          /\ req[g].kind = "go" /\ Done(g) /\ result[g] = InternalError
          /\ resp[g] = [kind |-> "temporary", location |-> HomeError]

\* ----------------------------------------------------------------- C12
\* C12: a call returns InternalError only at its lock acquisition and only
\* when the lock is poisoned, the step leaving the map and the guards as they
\* were; as long as no holder of the lock has panicked no call has returned
\* InternalError, every returned store is Ok or AlreadyExists and every returned
\* lookup Ok or NotFound; and no step of a call that returns InternalError
\* changes the map.
C12_InternalErrorOnlyPoisoned ==
    /\ [](\A t \in Tasks : result[t] = InternalError => poisoned)
    /\ [](~poisoned =>
             \A t \in Tasks :
                 /\ (req[t].kind = "create" /\ result[t] # NoResult)
                    => result[t] \in {Ok(<<>>), AlreadyExists}
                 /\ (req[t].kind = "go" /\ result[t] # NoResult)
                    => (result[t].tag = "Ok" \/ result[t] = NotFound))
    /\ [][\A t \in Tasks :
             (result'[t] = InternalError /\ result[t] # InternalError)
             => /\ poisoned
                /\ pc[t] \in {"store_lock", "lookup_lock"}
                /\ <<data, writer, readers>>' = <<data, writer, readers>>]_vars
    /\ [][\A t \in Tasks :
             (pc'[t] # pc[t] /\ (result[t] = InternalError \/ result'[t] = InternalError))
             => data' = data]_vars

\* After a panic poisoned the lock, a store and a lookup both returned
\* InternalError.
C12_Witness ==
    /\ poisoned
    /\ \E c \in Creates : Done(c) /\ result[c] = InternalError
    /\ \E g \in Gos : Done(g) /\ result[g] = InternalError

\* ----------------------------------------------------------------- C13
\* C13: whatever its url and owner, empty strings and the empty identifier
\* included, a store that checks a present identifier returns AlreadyExists
\* and one that checks an absent identifier goes on to insert and returns Ok;
\* several stores of one identifier have at most one Ok whatever their owners;
\* and a lookup's Ok value is the url, not the owner, of the store that won.
C13_OutcomeByPresenceOnly ==
    /\ [][\A t \in Tasks :
             (pc[t] = "store_lock" /\ pc'[t] # pc[t])
             => IF req[t].short_name \in DOMAIN data
                THEN result'[t] = AlreadyExists /\ pc'[t] = "store_ret"
                ELSE result'[t] = NoResult /\ pc'[t] = "store_insert"]_vars
    /\ [][\A t \in Tasks :
             (pc[t] \in {"store_insert", "store_write"} /\ pc'[t] = "store_ret")
             => result'[t] = Ok(<<>>)]_vars
    /\ [](\A t \in Creates :
             Done(t) =>
                /\ result[t] \in {Ok(<<>>), AlreadyExists}
                /\ pre[t].present => result[t] = AlreadyExists
                /\ Racers(req[t].short_name) = {t} => result[t] = Ok(<<>>))
    /\ [](\A c, d \in Creates :
             (c # d /\ req[c].short_name = req[d].short_name /\ Done(c) /\ Done(d))
             => ~(result[c].tag = "Ok" /\ result[d].tag = "Ok"))
    /\ [](\A g \in Gos :
             (Done(g) /\ result[g].tag = "Ok")
             => \E c \in OkStores(req[g].id) : result[g].val = req[c].url)

\* The empty identifier was stored with an empty url and an empty owner; a
\* store of it for another owner was refused, and its lookup returns the url.
C13_Witness ==
    \E c, d \in Creates : \E g \in Gos :
        /\ req[c] = [kind |-> "create", short_name |-> <<>>, url |-> "", owner |-> ""]
        /\ req[d].short_name = <<>> /\ req[d].owner = "alice"
        /\ req[g].id = <<>>
        /\ Done(c) /\ Done(d) /\ Done(g)
        /\ result[c] = Ok(<<>>)
        /\ result[d] = AlreadyExists
        /\ result[g] = Ok("")

\* ----------------------------------------------------------------- C14
\* The positions of a task inside store and inside lookup.
InStore == {"store_lock", "store_insert", "store_write", "store_ret"}
InLookup == {"lookup_lock", "lookup_ret"}

\* C14: a request enters store only on arrival and only as a POST /create,
\* enters lookup only on arrival and only as a GET /go/{id}; once its call has
\* returned, with whatever result, the handler answers and the request is over,
\* calling nothing again; so an answered create has made its one store call and
\* no lookup, an answered go its one lookup and no store, and GET / no call.
C14_OneCallPerRequest ==
    /\ [][\A t \in Tasks :
             /\ (pc'[t] = "store_lock" /\ pc[t] # "store_lock")
                => (pc[t] = "idle" /\ req'[t].kind = "create")
             /\ (pc'[t] = "lookup_lock" /\ pc[t] # "lookup_lock")
                => (pc[t] = "idle" /\ req'[t].kind = "go")
             /\ (pc[t] \in {"store_ret", "lookup_ret"} /\ pc'[t] # pc[t])
                => (pc'[t] = "done" /\ result'[t] = result[t])
             /\ pc[t] = "done" => (pc'[t] = "done" /\ result'[t] = result[t])
             /\ (result[t] # NoResult /\ pc[t] # "done") => result'[t] = result[t]]_vars
    /\ [](\A t \in Tasks :
             /\ pc[t] \in InStore => req[t].kind = "create"
             /\ pc[t] \in InLookup => req[t].kind = "go"
             /\ (Done(t) /\ req[t].kind \in {"create", "go"}) => result[t] # NoResult
             /\ (Done(t) /\ req[t].kind = "index") => result[t] = NoResult)

\* A create refused with AlreadyExists, a lookup that failed with NotFound and
\* the create that succeeded before them have all been answered.
C14_Witness ==
    \E c, d \in Creates : \E g \in Gos :
        /\ Done(c) /\ Done(d) /\ Done(g)
        /\ result[c] = Ok(<<>>) /\ resp[c].body = SuccessPage
        /\ result[d] = AlreadyExists /\ resp[d].body = ExistsPage
        /\ result[g] = NotFound /\ resp[g].kind = "temporary"

\* ----------------------------------------------------------------- C15
\* The index page with nothing at the placeholder.
EmptyRegionPage ==
    [n \in DOMAIN IndexTemplate |->
        IF IndexTemplate[n] = Placeholder THEN "" ELSE IndexTemplate[n]]

\* C15: GET / is answered with the index page whose message region is empty,
\* the same page with or without a query string, whatever the message and
\* success parameters and whatever the map holds; serving it changes neither
\* the map nor the lock and makes no storage call.
C15_HomePageIgnoresQuery ==
    /\ [](\A t \in Tasks :
             (req[t].kind = "index" /\ Done(t))
             => /\ resp[t] = [kind |-> "html", body |-> EmptyRegionPage]
                /\ result[t] = NoResult)
    /\ [][\A t \in Tasks :
             (req'[t].kind = "index" /\ req[t].kind # "index")
             => /\ pc'[t] = "done"
                /\ <<data, inflight, writer, readers, poisoned>>'
                      = <<data, inflight, writer, readers, poisoned>>]_vars

\* A lookup of an absent identifier was redirected to the home path, and a
\* GET / carrying that redirect's query string, served while the map holds a
\* record, got the page with the empty region, as did a GET / without a query.
C15_Witness ==
    \E g \in Gos : \E h \in Tasks :
        /\ Done(g) /\ resp[g] = [kind |-> "temporary", location |-> HomeNotFound]
        /\ req[h] = [kind |-> "index",
                     query |-> [message |-> "Redirect not found", success |-> "false"]]
        /\ g < h /\ Done(h)
        /\ resp[h].body = EmptyRegionPage
        /\ DOMAIN data # {}

\* ----------------------------------------------------------------- C16
\* C16 as stated: an answered request has a log entry only if it is a GET
\* /go/{id} whose lookup returned Ok; a request whose lookup failed, and every
\* create request, has none.
C16_LogOnlySuccessfulLookups ==
    \A t \in Tasks :
        Done(t) =>
           /\ logged[t] # <<>> => (req[t].kind = "go" /\ result[t].tag = "Ok")
           /\ req[t].kind = "create" => logged[t] = <<>>

\* C16: handle_redirect emits its "Looked up <id>" debug trace once for every
\* GET /go/{id} request, before it calls lookup and whatever lookup returns
\* (Ok, NotFound or another error); create and index requests emit no log
\* entry, and no error is logged.
C16_LogEveryLookupRequest ==
    /\ [](\A t \in Tasks :
             IF req[t].kind = "go"
             THEN logged[t] = << <<"Looked up", req[t].id>> >>
             ELSE logged[t] = <<>>)
    /\ [][\A t \in Tasks :
             logged'[t] # logged[t]
             => (pc[t] = "idle" /\ pc'[t] = "lookup_lock" /\ result'[t] = NoResult)]_vars

\* A lookup that returned NotFound and one that returned InternalError have
\* both left their trace, and the create that panicked left none.
C16_Witness ==
    /\ \E g, h \in Gos :
          /\ Done(g) /\ result[g] = NotFound /\ Len(logged[g]) = 1
          /\ Done(h) /\ result[h] = InternalError /\ Len(logged[h]) = 1
    /\ \E c \in Tasks : pc[c] = "panicked" /\ logged[c] = <<>>

\* ----------------------------------------------------------------- C17
\* The sequential create-once map: what a call returns on map m and the map
\* it leaves.
SeqStore(m, id, url, owner) ==
    IF id \in DOMAIN m
    THEN [ret |-> AlreadyExists, map |-> m]
    ELSE [ret |-> Ok(<<>>),
          map |-> [k \in DOMAIN m \cup {id} |-> IF k = id THEN <<url, owner>> ELSE m[k]]]
SeqLookup(m, id) ==
    [ret |-> IF id \in DOMAIN m THEN Ok(m[id][1]) ELSE NotFound, map |-> m]
SeqCall(m, r) ==
    IF r.kind = "create" THEN SeqStore(m, r.short_name, r.url, r.owner)
    ELSE SeqLookup(m, r.id)
\* Task t holds the lock in the mode its call takes it.
HoldsLock(t, w, rd) == IF req[t].kind = "create" THEN w = {t} ELSE t \in rd

\* C17: every call takes effect at one step, the step that sets its result,
\* taken after the call was issued, before it returns and with the lock held:
\* there the call gets what the sequential map returns on the map as it is,
\* and the map becomes the one the sequential map leaves; no other step
\* changes the map, and a result once set is what the call returns.  The
\* order of these steps is the linearization: each lies within its call, so
\* it extends the real-time order of the calls.
C17_Linearizable ==
    /\ [][\A t \in Tasks :
             (result'[t] # result[t])
             => /\ result[t] = NoResult
                /\ pc[t] \in {"store_lock", "store_write", "lookup_lock"}
                /\ pc'[t] \in {"store_ret", "lookup_ret"}
                /\ HoldsLock(t, writer', readers')
                /\ result'[t] = SeqCall(data, req[t]).ret
                /\ data' = SeqCall(data, req[t]).map
                /\ \A s \in Tasks \ {t} : result'[s] = result[s]]_vars
    /\ [][(result' = result) => (data' = data)]_vars
    /\ [](\A t \in Tasks :
             /\ Done(t) /\ req[t].kind \in {"create", "go"} => result[t] # NoResult
             /\ pc[t] \in {"idle", "store_lock", "lookup_lock", "store_insert",
                           "store_write"} => result[t] = NoResult)

\* Two stores of one identifier ran concurrently, one won; a lookup of it,
\* issued while a store was in progress, returned the winner's url.
C17_Witness ==
    \E c, d \in Creates : \E g \in Gos :
        /\ c # d /\ req[c].short_name = req[d].short_name
        /\ req[g].id = req[c].short_name
        /\ ~pre[c].present /\ ~pre[d].present /\ pre[g].busy
        /\ Done(c) /\ Done(d) /\ Done(g)
        /\ result[c] = Ok(<<>>) /\ result[d] = AlreadyExists
        /\ req[c].url # req[d].url
        /\ result[g] = Ok(req[c].url)

\* ----------------------------------------------------------------- C18
\* The store calls whose result is Ok: the result is fixed by the step that
\* inserts, under the write guard.
OkCalls == {t \in Creates : result[t] = Ok(<<>>)}
\* The state predicate of C18.
MapIsOkStores ==
    /\ DOMAIN data = {req[t].short_name : t \in OkCalls}
    /\ \A c, d \in OkCalls : req[c].short_name = req[d].short_name => c = d
    /\ \A t \in OkCalls : data[req[t].short_name] = <<req[t].url, req[t].owner>>
    /\ Cardinality(DOMAIN data) = Cardinality(OkCalls)
    /\ writer = {} =>
          /\ \A t \in OkCalls : Done(t)
          /\ DOMAIN data = {id \in Ids : OkStores(id) # {}}

\* C18: in every reachable state the keys of the map are the identifiers of
\* the store calls whose result is Ok, no two such calls have the same
\* identifier, the value under each key is the (url, owner) of its call, and
\* the map has as many records as there are Ok results; whenever the write
\* guard is free, these calls are exactly the ones that have returned.
C18_MapIsOkStores == []MapIsOkStores

\* The map holds both identifiers, under different values, each the record
\* of the one store that returned Ok for it, and a third store was refused.
C18_Witness ==
    /\ Cardinality(DOMAIN data) = 2
    /\ data[<<>>] # data[<<"a">>]
    /\ Cardinality(OkCalls) = 2
    /\ \E t \in Creates : Done(t) /\ result[t] = AlreadyExists

\* ----------------------------------------------------------------- C19
\* Task t holds a guard of the lock.
Holds(t) == t \in writer \cup readers

\* C19: with no panicking holder and under fair scheduling, every call that
\* was started returns, on each of its paths (Ok, AlreadyExists, NotFound)
\* without the lock, so no call waits on the lock forever and a lock that is
\* held is released.
C19_CallsReturn ==
    /\ \A t \in Tasks :
          (pc[t] \in InStore \cup InLookup) ~> (Done(t) /\ ~Holds(t))
    /\ [](\A t \in Tasks : (Done(t) \/ pc[t] = "idle") => ~Holds(t))
    /\ (writer # {} \/ readers # {}) ~> (writer = {} /\ readers = {})

\* A store holds the write guard while another store and a lookup wait on the
\* lock.
C19_Witness ==
    \E w, c \in Creates : \E g \in Gos :
        /\ writer = {w} /\ w # c
        /\ pc[c] = "store_lock"
        /\ pc[g] = "lookup_lock"

====
